---- MODULE Spec2Model ----
(***************************************************************************)
(* State-machine model of supex_driver/connection/connection.py:           *)
(* SketchupConnection (connect, _send_hello, disconnect,                   *)
(* receive_full_response, send_command) talking JSON-RPC over a TCP socket *)
(* to a peer whose behaviour is nondeterministic.                          *)
(***************************************************************************)
EXTENDS Integers, Sequences, FiniteSets, TLC

\* ------------------------------------------------------------------ bounds
\* Number of top-level operations (send_command / connect / disconnect) a run makes.
MaxCalls == 2

\* ------------------------------------------------------- program constants
MAX_RETRIES == 2
CLIENT_NAME == "supex-driver"
CLIENT_VERSION == "0.0.0"

\* The threads of the process, and those of them that call the Connection
\* when its operations run one at a time.
Callers == {1, 2}
Threads == {1}
\* The Connection objects they use.
ConnIds == {1}
\* Values of the `agent` field a Connection is constructed with.
Agents == {"unknown", "test-agent"}
\* The auth token of the deployment's configuration: NoToken when none is
\* configured.  The class declares no field for it.
NoToken == ""
\* The configurations a Connection is set up with.
Configs ==
    {[agent |-> "unknown", token |-> NoToken],
     [agent |-> "test-agent", token |-> "test-secret"]}

\* The get_sketchup_connection calls a run makes, and the instances they can
\* construct: one each at most.
MaxLookups == 3
InstIds == 1..MaxLookups

\* Socket descriptors.  Every connect() opens at most one socket and every
\* top-level operation runs connect() at most MAX_RETRIES + 1 times.
MaxSockets == MaxCalls * (MAX_RETRIES + 1)
SockIds == 1..MaxSockets
\* Python's None for the socket handle.
None == 0

\* ------------------------------------------------------------ Python values
\* The empty dict {}.
EmptyDict == [k \in {} |-> k]
\* An optional dict argument: NoParams is None, Some(d) is the dict d.
NoParams == [some |-> FALSE, val |-> EmptyDict]
Some(d) == [some |-> TRUE, val |-> d]
\* Truthiness of an optional dict (None and {} are falsy).
Truthy(p) == p.some /\ DOMAIN p.val # {}
\* `params or {}`
OrEmpty(p) == IF Truthy(p) THEN p.val ELSE EmptyDict
\* dict.get(key, default)
Get(d, key, default) == IF key \in DOMAIN d THEN d[key] ELSE default

\* Exceptions: the class, the constructor arguments and the extra attributes.
Exc(type, msg) == [type |-> type, args |-> <<msg>>, attrs |-> EmptyDict]
NoExc == [type |-> "", args |-> <<>>, attrs |-> EmptyDict]

\* The exception classes of the first except clause of send_command, with the
\* builtin subclasses of ConnectionError that `except ConnectionError` catches.
TransportErrors ==
    {"TimeoutError", "ConnectionError", "BrokenPipeError", "ConnectionResetError",
     "ConnectionRefusedError", "ConnectionAbortedError",
     "SketchUpTimeoutError", "SketchUpConnectionError"}

\* ------------------------------------------------------------- wire format
\* A byte string is a sequence of tokens: "{" and "}" delimit a JSON object,
\* a body token stands for the members of one response object, "NL" is the
\* newline, "x" is an ASCII byte that is no JSON, "1" is a scalar JSON
\* document, "0xFF" is a byte that is not valid UTF-8 and "big" is a run of
\* ASCII bytes without a newline that is longer than 10 MiB and no JSON.
BodyTokens == {"res1", "res2", "nores", "err_full", "err_nodata", "err_nomsg"}

\* The response object a body token decodes to.
BodyOf(tok) ==
    CASE tok = "res1" -> [jsonrpc |-> "2.0", result |-> [text |-> "one"]]
      [] tok = "res2" -> [jsonrpc |-> "2.0", result |-> [text |-> "two"]]
      [] tok = "nores" -> [jsonrpc |-> "2.0"]
      [] tok = "err_full" ->
            [jsonrpc |-> "2.0",
             error |-> [code |-> -32000, message |-> "boom", data |-> [hint |-> "check X"]]]
      [] tok = "err_nodata" ->
            [jsonrpc |-> "2.0", error |-> [code |-> -32601, message |-> "Method not found"]]
      [] tok = "err_nomsg" -> [jsonrpc |-> "2.0", error |-> [code |-> -32000]]

\* str.strip()-like removal of JSON whitespace at both ends, as json.loads does.
RECURSIVE StripLeft(_)
StripLeft(s) == IF s # <<>> /\ Head(s) = "NL" THEN StripLeft(Tail(s)) ELSE s
RECURSIVE StripRight(_)
StripRight(s) ==
    IF s # <<>> /\ s[Len(s)] = "NL" THEN StripRight(SubSeq(s, 1, Len(s) - 1)) ELSE s

\* json.loads(data.decode("utf-8")): the exception raised ("" when none), and
\* the decoded document (kind "object" with its dict, or kind "scalar").
JsonLoads(data) ==
    LET core == StripRight(StripLeft(data)) IN
    IF \E i \in 1..Len(data) : data[i] = "0xFF"
    THEN [exc |-> "UnicodeDecodeError", kind |-> "", obj |-> EmptyDict]
    ELSE IF Len(core) = 3 /\ core[1] = "{" /\ core[2] \in BodyTokens /\ core[3] = "}"
    THEN [exc |-> "", kind |-> "object", obj |-> BodyOf(core[2])]
    ELSE IF core = <<"{", "}">>
    THEN [exc |-> "", kind |-> "object", obj |-> EmptyDict]
    ELSE IF core = <<"1">>
    THEN [exc |-> "", kind |-> "scalar", obj |-> EmptyDict]
    ELSE [exc |-> "JSONDecodeError", kind |-> "", obj |-> EmptyDict]

\* What one sock.recv() call gives: a chunk of bytes (the empty chunk is the
\* peer's orderly close), or an exception.
Chunk(bytes) == [ev |-> "chunk", data |-> bytes]
Eof == [ev |-> "chunk", data |-> <<>>]
RecvRaises(type) == [ev |-> type, data |-> <<>>]

\* The statements after the receive loop (lines 193-202).  A result of a
\* receive is the exception raised (NoExc when it returns), the data returned
\* and, for the history, the bytes that had arrived (`seen`).
AfterReceiveLoop_ReturnsPartial(buf) == [exc |-> NoExc, data |-> buf, seen |-> buf]
AfterReceiveLoop(buf) ==
    IF buf # <<>>
    THEN CASE JsonLoads(buf).exc = "" -> [exc |-> NoExc, data |-> buf, seen |-> buf]
           [] JsonLoads(buf).exc = "JSONDecodeError" ->
                [exc |-> Exc("SketchUpProtocolError", "Incomplete JSON response received"),
                 data |-> <<>>, seen |-> buf]
           [] OTHER -> [exc |-> Exc(JsonLoads(buf).exc, ""), data |-> <<>>, seen |-> buf]
    ELSE [exc |-> Exc("SketchUpConnectionError", "No data received"),
          data |-> <<>>, seen |-> buf]

\* receive_full_response(sock), lines 152-191, when the successive recv()
\* calls give `script` (a socket on which nothing more arrives times out);
\* `buf` is the data accumulated so far (the local `chunks`, joined).
RECURSIVE ReceiveLoop(_, _)
ReceiveLoop(script, buf) ==
    LET e == IF script = <<>> THEN RecvRaises("TimeoutError") ELSE Head(script) IN
    CASE e.ev = "chunk" /\ e.data = <<>> ->
            IF buf = <<>>
            THEN [exc |-> Exc("SketchUpConnectionError",
                              "Connection closed before receiving any data"),
                  data |-> <<>>, seen |-> buf]
            ELSE AfterReceiveLoop(buf)
      [] e.ev = "chunk" /\ e.data # <<>> ->
            LET data == buf \o e.data IN
            CASE JsonLoads(data).exc = "" -> [exc |-> NoExc, data |-> data, seen |-> data]
              [] JsonLoads(data).exc = "JSONDecodeError" -> ReceiveLoop(Tail(script), data)
              [] OTHER -> [exc |-> Exc(JsonLoads(data).exc, ""), data |-> <<>>, seen |-> data]
      [] e.ev = "TimeoutError" -> AfterReceiveLoop(buf)
      [] e.ev \in {"ConnectionError", "BrokenPipeError", "ConnectionResetError"} ->
            [exc |-> Exc("SketchUpConnectionError", e.ev), data |-> <<>>, seen |-> buf]
      [] OTHER -> [exc |-> Exc(e.ev, ""), data |-> <<>>, seen |-> buf]

receive_full_response(script) == ReceiveLoop(script, <<>>)

\* ---------------------------------------------------------------- requests
\* request_id is left at its default, None.
NoId == "None"

\* The (method, params) pairs callers pass to send_command.
CallArgs ==
    {<<"get_layers", NoParams>>,
     <<"get_layers", Some(EmptyDict)>>,
     <<"create_layer", Some([name |-> "Walls"])>>,
     <<"tools/call", Some([name |-> "eval_ruby", arguments |-> [code |-> "1 + 1"]])>>,
     <<"tools/call", Some([name |-> "eval_ruby"])>>,
     <<"resources/list", NoParams>>,
     <<"resources/list", Some([cursor |-> "c1"])>>,
     <<"hello", Some([agent |-> "x"])>>}

\* The request send_command builds (lines 226-255).
BuildRequest_Unwrapped(m, p) ==
    [jsonrpc |-> "2.0", method |-> m, params |-> OrEmpty(p), id |-> NoId]
BuildRequest_Wrapped(m, p) ==
    [jsonrpc |-> "2.0", method |-> "tools/call",
     params |-> [name |-> m, arguments |-> OrEmpty(p)], id |-> NoId]
BuildRequest(m, p) ==
    IF m = "tools/call" /\ Truthy(p) /\ "name" \in DOMAIN p.val /\ "arguments" \in DOMAIN p.val
    THEN [jsonrpc |-> "2.0", method |-> m, params |-> p.val, id |-> NoId]
    ELSE IF m \in {"resources/list"}
    THEN [jsonrpc |-> "2.0", method |-> m, params |-> OrEmpty(p), id |-> NoId]
    ELSE [jsonrpc |-> "2.0", method |-> "tools/call",
          params |-> [name |-> m, arguments |-> OrEmpty(p)], id |-> NoId]

\* The "agent" entry of the hello params (line 100).
HelloAgent_Default(a) == "unknown"
HelloAgent(a) == a

\* The hello request of _send_hello (lines 94-104); the pid is left out.
hello_request(a) ==
    [jsonrpc |-> "2.0", method |-> "hello",
     params |-> [name |-> CLIENT_NAME, version |-> CLIENT_VERSION, agent |-> HelloAgent(a)],
     id |-> "hello"]

NoRequest == [jsonrpc |-> "", method |-> "", params |-> EmptyDict, id |-> NoId]

\* ------------------------------------------------------------ the peer
\* What the successive recv() calls of one receive_full_response give.
RecvScripts ==
    {<<Chunk(<<"{", b, "}", "NL">>)>> : b \in BodyTokens}
    \cup {<<Chunk(<<"{", "res1">>), Chunk(<<"}", "NL">>)>>,
          <<Chunk(<<"{", "}", "NL">>)>>,
          <<Chunk(<<"1", "NL">>)>>,
          <<RecvRaises("TimeoutError")>>,
          <<RecvRaises("ConnectionResetError")>>,
          <<RecvRaises("OSError")>>,
          <<Eof>>,
          <<Chunk(<<"{", "res1">>), Eof>>,
          <<Chunk(<<"{", "res1">>), RecvRaises("TimeoutError")>>,
          <<Chunk(<<"{", "res1">>), RecvRaises("ConnectionResetError")>>,
          <<Chunk(<<"x", "NL">>), Eof>>,
          <<Chunk(<<"x", "NL">>), RecvRaises("TimeoutError")>>,
          <<Chunk(<<"{", "res1", "}", "NL", "{", "res2", "}", "NL">>)>>,
          <<Chunk(<<"0xFF", "NL">>)>>}

\* What sock.sendall() does: it writes the bytes ("ok") or raises.
SendOutcomes == {"ok", "BrokenPipeError", "OSError"}

\* What lines 65-68 of connect() do: socket() raises, one of settimeout /
\* setsockopt / connect raises on the new socket, or the connection is made.
OpenOutcomes == {"socket_raises", "connect_raises", "ok"}

\* ------------------------------------------------------------------- state
VARIABLES
    sock,           \* Connection.sock per Connection: a socket id or None
    identified,     \* Connection._identified
    agent,          \* Connection.agent
    token,          \* the auth token configured for the Connection
    sockOpen,       \* sockets created and not closed
    written,        \* history: per socket, the messages sendall has written to it
                    \* since the latest connect() or send_command was called
    pc,             \* per thread, where it is ("idle" between operations)
    self,           \* per thread, the Connection it operates on
    idle,           \* per Connection, whether it had been idle longer than the
                    \* maximum idle time when the operation under way was called
    peeked,         \* per thread, what the peek of its health probe gave
    op,             \* per thread, the top-level operation it runs or ran last
    caller,         \* per thread, the call site connect() returns to
    args,           \* per thread, send_command's (method, params)
    request,        \* per thread, send_command's local `request`
    retry_count,    \* per thread, send_command's local `retry_count`
    hello_ok,       \* per thread, what _send_hello returned
    connected,      \* per thread, what connect() returned
    pending,        \* per thread, the exception in flight inside send_command
    outcome,        \* per thread, how its last operation ended
    calls,          \* history: top-level operations started
    callConnects,   \* history: per thread, connect() calls of the current operation
    attempts,       \* history: per thread, request attempts of the current call
    writes,         \* history: per thread, command requests written in the current call
    helloSeen,      \* history: per thread, the bytes that answered the hello of the
                    \* connect() it is in
    last,           \* history: per thread, how the latest attempt of the call ended
    transport,      \* history: per thread, attempts of the call a transport failure ended
    clean,          \* history: the send_command calls that returned, the hello
                    \* requests written and the sockets connected since
                    \* construction, as long as nothing failed and nothing but
                    \* send_command was called
    \* One call of receive_full_response, recv() by recv():
    rpc,            \* where the call is: "recv" (line 158), "after_loop" (line 193)
                    \* or "done"
    chunks,         \* its local `chunks`, joined
    nrecv,          \* history: the recv() calls it has made
    chunk,          \* what its latest recv() gave
    rres,           \* what the call returned or raised
    \* The registry of get_sketchup_connection:
    connection_lock,      \* _connection_lock: the thread that holds it, or NoThread
    sketchup_connection,  \* _sketchup_connection: an instance or NoInstance
    connection_agent,     \* _connection_agent: an agent or NoAgent
    inst,           \* per instance, its agent, whether it holds a socket and
                    \* its _identified flag (NotMade before it is constructed)
    gpc,            \* per thread, where its lookup is ("idle" outside a lookup)
    garg,           \* per thread, the `agent` argument of its lookup
    gret,           \* per thread, the instance its latest lookup returned
    gold,           \* history: per thread, the instance that was registered when
                    \* its lookup took the lock
    lookups,        \* history: the lookups started
    asked,          \* history: the agents the lookups passed
    dropped,        \* history: the instances a lookup disconnected while they
                    \* held a socket
    using,          \* per thread, the instance on which its send_command is in
                    \* flight (NoInstance outside send_command)
    \* The receive loop pass by pass, for termination:
    trickled        \* history: per thread, the recv() calls that gave bytes
                    \* without completing a message, counted modulo TrickleWrap

connVars == <<sock, identified, agent, token>>
sockVars == <<sockOpen, written>>
localVars == <<self, idle, peeked, op, caller, args, request, retry_count, hello_ok, connected, pending>>
histVars == <<calls, callConnects, attempts, writes, last, transport, clean>>
\* The variables of the Connection and of its callers.
callVars == <<connVars, sockVars, pc, localVars, outcome, helloSeen, histVars>>
\* The variables of the receive taken recv() by recv().
recvVars == <<rpc, chunks, nrecv, chunk, rres>>
\* The variables the operations of a Connection leave alone.
\* The variables of the registry.
regVars == <<connection_lock, sketchup_connection, connection_agent, inst, gpc, garg,
             gret, gold, lookups, asked, dropped, using>>
\* The variable of the passes of the receive loop.
liveVars == <<trickled>>
otherVars == <<recvVars, regVars, liveVars>>
vars == <<callVars, otherVars>>

\* How one attempt of the retry loop ended: the exception class ("" when a
\* response was decoded), the response object and the bytes that had arrived.
NoAttempt == [exc |-> "", got |-> FALSE, resp |-> EmptyDict, seen |-> <<>>]
AttemptFailed(type, seen) == [exc |-> type, got |-> FALSE, resp |-> EmptyDict, seen |-> seen]
AttemptAnswered(resp, seen) == [exc |-> "", got |-> TRUE, resp |-> resp, seen |-> seen]

\* The failures the retry policy is about: reset, broken pipe, a closed
\* connection, no response within the timeout.
TransportFailures ==
    {"ConnectionResetError", "BrokenPipeError", "TimeoutError",
     "SketchUpConnectionError", "SketchUpTimeoutError"}

\* The history `clean` once something failed or another operation was called.
Spoiled == [sends |-> -1, hellos |-> -1, connects |-> -1]

\* sock.connect() calls that succeeded since construction.
tcpConnects == clean.connects

\* The descriptor socket() gives: the lowest one that is not open.
NewSock == CHOOSE s \in SockIds : s \notin sockOpen /\ \A r \in 1..(s - 1) : r \in sockOpen

NoOutcome == [status |-> "none", value |-> EmptyDict, exc |-> NoExc]
Returned(v) == [status |-> "return", value |-> v, exc |-> NoExc]
Raised(e) == [status |-> "raise", value |-> EmptyDict, exc |-> e]

\* Lines 325-327: no thread holds the lock, nothing is registered.
NoThread == 0
NoInstance == 0
NoAgent == "None"
\* An instance that has not been constructed.
NotMade == [agent |-> NoAgent, sock |-> FALSE, identified |-> FALSE]

\* SketchupConnection(agent=a): lines 48-53.
Init ==
    /\ sock = [c \in ConnIds |-> None]
    /\ identified = [c \in ConnIds |-> FALSE]
    /\ \E cfg \in [ConnIds -> Configs] :
         /\ agent = [c \in ConnIds |-> cfg[c].agent]
         /\ token = [c \in ConnIds |-> cfg[c].token]
    /\ sockOpen = {}
    /\ written = [s \in SockIds |-> <<>>]
    /\ pc = [t \in Callers |-> "idle"]
    /\ self = [t \in Callers |-> 1]
    /\ idle = [c \in ConnIds |-> FALSE]
    /\ peeked = [t \in Callers |-> ""]
    /\ op = [t \in Callers |-> ""]
    /\ caller = [t \in Callers |-> ""]
    /\ args = [t \in Callers |-> <<"", NoParams>>]
    /\ request = [t \in Callers |-> NoRequest]
    /\ retry_count = [t \in Callers |-> 0]
    /\ hello_ok = [t \in Callers |-> FALSE]
    /\ connected = [t \in Callers |-> FALSE]
    /\ pending = [t \in Callers |-> NoExc]
    /\ outcome = [t \in Callers |-> NoOutcome]
    /\ calls = 0
    /\ callConnects = [t \in Callers |-> 0]
    /\ attempts = [t \in Callers |-> 0]
    /\ writes = [t \in Callers |-> 0]
    /\ helloSeen = [t \in Callers |-> <<>>]
    /\ last = [t \in Callers |-> NoAttempt]
    /\ transport = [t \in Callers |-> 0]
    /\ clean = [sends |-> 0, hellos |-> 0, connects |-> 0]
    /\ rpc = "recv"
    /\ chunks = <<>>
    /\ nrecv = 0
    /\ chunk = Chunk(<<>>)
    /\ rres = [exc |-> NoExc, data |-> <<>>, seen |-> <<>>]
    /\ connection_lock = NoThread
    /\ sketchup_connection = NoInstance
    /\ connection_agent = NoAgent
    /\ inst = [i \in InstIds |-> NotMade]
    /\ gpc = [t \in Callers |-> "idle"]
    /\ garg = [t \in Callers |-> NoAgent]
    /\ gret = [t \in Callers |-> NoInstance]
    /\ gold = [t \in Callers |-> NoInstance]
    /\ lookups = 0
    /\ asked = {}
    /\ dropped = {}
    /\ using = [t \in Callers |-> NoInstance]
    /\ trickled = [t \in Callers |-> 0]

\* ------------------------------------------------------------ disconnect
\* disconnect() on Connection c (lines 124-133): an error of close() is
\* swallowed, and the handle and the flag are cleared when a socket was held.
disconnect_Unguarded(c) ==
    /\ sockOpen' = sockOpen \ {sock[c]}
    /\ written' = [s \in SockIds |-> IF s = sock[c] THEN <<>> ELSE written[s]]
    /\ sock' = [sock EXCEPT ![c] = None]
    /\ identified' = [identified EXCEPT ![c] = FALSE]
disconnect_KeepsOpen(c) ==
    /\ sock' = [sock EXCEPT ![c] = None]
    /\ identified' = [identified EXCEPT ![c] = FALSE]
    /\ UNCHANGED <<sockOpen, written>>
disconnect(c) ==
    IF sock[c] # None
    THEN /\ sockOpen' = sockOpen \ {sock[c]}
         /\ written' = [written EXCEPT ![sock[c]] = <<>>]
         /\ sock' = [sock EXCEPT ![c] = None]
         /\ identified' = [identified EXCEPT ![c] = FALSE]
    ELSE UNCHANGED <<sock, identified, sockOpen, written>>

\* A top-level operation ends: the thread is idle again.
Finish(t, o) ==
    /\ pc' = [pc EXCEPT ![t] = "idle"]
    /\ outcome' = [outcome EXCEPT ![t] = o]

\* A new top-level operation starts with fresh locals and a fresh history.
StartCall(t, name) ==
    /\ pc[t] = "idle"
    /\ calls < MaxCalls
    /\ calls' = calls + 1
    /\ op' = [op EXCEPT ![t] = name]
    /\ request' = [request EXCEPT ![t] = NoRequest]
    /\ hello_ok' = [hello_ok EXCEPT ![t] = FALSE]
    /\ connected' = [connected EXCEPT ![t] = FALSE]
    /\ retry_count' = [retry_count EXCEPT ![t] = 0]
    /\ pending' = [pending EXCEPT ![t] = NoExc]
    /\ attempts' = [attempts EXCEPT ![t] = 0]
    /\ writes' = [writes EXCEPT ![t] = 0]
    /\ last' = [last EXCEPT ![t] = NoAttempt]
    /\ transport' = [transport EXCEPT ![t] = 0]

\* A caller calls disconnect() on its Connection.
CallDisconnect(t) ==
    /\ StartCall(t, "disconnect")
    /\ UNCHANGED otherVars
    /\ disconnect(self[t])
    /\ outcome' = [outcome EXCEPT ![t] = Returned(EmptyDict)]
    /\ callConnects' = [callConnects EXCEPT ![t] = 0]
    /\ clean' = Spoiled
    /\ caller' = [caller EXCEPT ![t] = "top"]
    /\ args' = [args EXCEPT ![t] = <<"", NoParams>>]
    /\ UNCHANGED helloSeen
    /\ idle' = [idle EXCEPT ![self[t]] = FALSE]
    /\ peeked' = [peeked EXCEPT ![t] = ""]
    /\ UNCHANGED <<agent, token, pc, self>>

\* ---------------------------------------------------------- health probe
\* What the non-blocking peek of the probe gives: no data waiting, zero bytes
\* (the peer closed), or another read error.
PeekOutcomes == {"would_block", "closed", "error"}

\* _is_connection_healthy(): False without a socket or when not identified,
\* False when idle too long, otherwise by the peek.
IsConnectionHealthy_IgnoresIdle(hasSock, ident, idleLong, peek) ==
    hasSock /\ ident /\ peek = "would_block"
IsConnectionHealthy(hasSock, ident, idleLong, peek) ==
    IF ~hasSock \/ ~ident THEN FALSE
    ELSE IF idleLong THEN FALSE
    ELSE CASE peek = "closed" -> FALSE
           [] peek = "would_block" -> TRUE
           [] OTHER -> FALSE

\* A caller calls _is_connection_healthy() on its Connection.
CallHealthCheck(t) ==
    /\ StartCall(t, "_is_connection_healthy")
    /\ UNCHANGED otherVars
    /\ \E late \in BOOLEAN, pk \in PeekOutcomes :
         LET c == self[t] IN
         /\ idle' = [idle EXCEPT ![c] = late]
         /\ peeked' = [peeked EXCEPT ![t] = pk]
         /\ outcome' = [outcome EXCEPT
                          ![t] = Returned(IsConnectionHealthy(sock[c] # None,
                                                              identified[c], late, pk))]
    /\ callConnects' = [callConnects EXCEPT ![t] = 0]
    /\ caller' = [caller EXCEPT ![t] = "top"]
    /\ args' = [args EXCEPT ![t] = <<"", NoParams>>]
    /\ UNCHANGED <<connVars, sockVars, pc, self, helloSeen, clean>>

\* --------------------------------------------------------------- connect
\* A caller calls connect() on its Connection.
CallConnect(t) ==
    /\ StartCall(t, "connect")
    /\ UNCHANGED otherVars
    /\ pc' = [pc EXCEPT ![t] = "connect_disconnect"]
    /\ caller' = [caller EXCEPT ![t] = "top"]
    /\ callConnects' = [callConnects EXCEPT ![t] = 1]
    /\ outcome' = [outcome EXCEPT ![t] = NoOutcome]
    /\ clean' = Spoiled
    /\ args' = [args EXCEPT ![t] = <<"", NoParams>>]
    /\ idle' = [idle EXCEPT ![self[t]] = FALSE]
    /\ peeked' = [peeked EXCEPT ![t] = ""]
    /\ written' = [s \in SockIds |-> <<>>]
    /\ UNCHANGED helloSeen
    /\ UNCHANGED <<connVars, sockOpen, self>>

\* connect(), lines 61-62: "Always create fresh connections"; the socket held
\* is never kept.
KeepSocket_WhenIdentified(c) == sock[c] # None /\ identified[c]
KeepSocket(c) == FALSE

\* connect(), line 62: always drop the socket held.
ConnectDisconnect(t) ==
    /\ pc[t] = "connect_disconnect"
    /\ UNCHANGED otherVars
    /\ IF KeepSocket(self[t])
       THEN /\ connected' = [connected EXCEPT ![t] = TRUE]
            /\ pc' = [pc EXCEPT ![t] = "connect_return"]
            /\ UNCHANGED <<sock, identified, sockOpen, written>>
       ELSE /\ disconnect(self[t])
            /\ pc' = [pc EXCEPT ![t] = "connect_open"]
            /\ UNCHANGED connected
    /\ helloSeen' = [helloSeen EXCEPT ![t] = <<>>]
    /\ UNCHANGED <<agent, token, self, idle, peeked, op, caller, args, request, retry_count,
                   hello_ok, pending, outcome, histVars>>

\* connect(), lines 65-68 and the except clause of lines 79-83.
ConnectOpen(t) ==
    /\ pc[t] = "connect_open"
    /\ UNCHANGED otherVars
    /\ \E s \in SockIds : s \notin sockOpen
    /\ \E how \in OpenOutcomes :
         LET c == self[t] IN
         CASE how = "socket_raises" ->
                /\ sock' = [sock EXCEPT ![c] = None]
                /\ identified' = [identified EXCEPT ![c] = FALSE]
                /\ connected' = [connected EXCEPT ![t] = FALSE]
                /\ pc' = [pc EXCEPT ![t] = "connect_return"]
                /\ clean' = Spoiled
                /\ UNCHANGED sockOpen
           [] how = "connect_raises" ->
                /\ sock' = [sock EXCEPT ![c] = None]
                /\ identified' = [identified EXCEPT ![c] = FALSE]
                /\ connected' = [connected EXCEPT ![t] = FALSE]
                /\ pc' = [pc EXCEPT ![t] = "connect_return"]
                /\ sockOpen' = sockOpen \cup {NewSock}
                /\ clean' = Spoiled
           [] how = "ok" ->
                /\ sock' = [sock EXCEPT ![c] = NewSock]
                /\ sockOpen' = sockOpen \cup {NewSock}
                /\ clean' = IF clean = Spoiled THEN Spoiled
                            ELSE [clean EXCEPT !.connects = @ + 1]
                /\ pc' = [pc EXCEPT ![t] = "hello_send"]
                /\ UNCHANGED <<identified, connected>>
    /\ UNCHANGED helloSeen
    /\ UNCHANGED <<agent, token, written, self, idle, peeked, op, caller, args, request, retry_count,
                   hello_ok, pending, outcome, calls, callConnects, attempts,
                   writes, last, transport>>

\* _send_hello(), lines 91-108: the guard and the write of the hello request.
HelloSend(t) ==
    /\ pc[t] = "hello_send"
    /\ UNCHANGED otherVars
    /\ LET c == self[t] IN
       IF sock[c] = None
       THEN /\ hello_ok' = [hello_ok EXCEPT ![t] = FALSE]
            /\ pc' = [pc EXCEPT ![t] = "connect_finish"]
            /\ clean' = Spoiled
            /\ UNCHANGED written
       ELSE \E how \in SendOutcomes :
              IF how = "ok"
              THEN /\ written' = [written EXCEPT
                                    ![sock[c]] = Append(@, hello_request(agent[c]))]
                   /\ clean' = IF clean = Spoiled THEN Spoiled
                               ELSE [clean EXCEPT !.hellos = @ + 1]
                   /\ pc' = [pc EXCEPT ![t] = "hello_recv"]
                   /\ UNCHANGED hello_ok
              ELSE /\ hello_ok' = [hello_ok EXCEPT ![t] = FALSE]
                   /\ pc' = [pc EXCEPT ![t] = "connect_finish"]
                   /\ clean' = Spoiled
                   /\ UNCHANGED written
    /\ UNCHANGED helloSeen
    /\ UNCHANGED <<connVars, sockOpen, self, idle, peeked, op, caller, args, request,
                   retry_count, connected, pending, outcome, calls, callConnects,
                   attempts, writes, last, transport>>

\* What _send_hello returns once the recv() calls have given `script`
\* (lines 110-122): any exception, a response that is no object and a
\* response with an "error" member all give False.
HelloAccepted_Always(script) == TRUE
HelloAccepted(script) ==
    LET r == receive_full_response(script) IN
    /\ r.exc = NoExc
    /\ JsonLoads(r.data).exc = ""
    /\ JsonLoads(r.data).kind = "object"
    /\ "error" \notin DOMAIN JsonLoads(r.data).obj

\* Every way the hello exchange can end, over the peer's behaviours.
HelloReplies ==
    {[accepted |-> HelloAccepted(script), seen |-> receive_full_response(script).seen] :
        script \in RecvScripts}

\* _send_hello(), lines 110-122: the read of the hello response.
HelloRecv(t) ==
    /\ pc[t] = "hello_recv"
    /\ UNCHANGED otherVars
    /\ \E reply \in HelloReplies :
         /\ reply.accepted => sock[self[t]] # None
         /\ hello_ok' = [hello_ok EXCEPT ![t] = reply.accepted]
         /\ helloSeen' = [helloSeen EXCEPT ![t] = reply.seen]
         /\ clean' = IF reply.accepted THEN clean ELSE Spoiled
    /\ pc' = [pc EXCEPT ![t] = "connect_finish"]
    /\ UNCHANGED <<connVars, sockVars, self, idle, peeked, op, caller, args, request, retry_count,
                   connected, pending, outcome, calls, callConnects, attempts,
                   writes, last, transport>>

\* `if not self._send_hello()` of line 72.
HelloFailed_Never(ok) == FALSE
HelloFailed(ok) == ~ok

\* connect(), lines 72-78: what follows _send_hello.
ConnectFinish(t) ==
    /\ pc[t] = "connect_finish"
    /\ UNCHANGED otherVars
    /\ LET c == self[t] IN
       IF HelloFailed(hello_ok[t])
       THEN /\ disconnect(c)
            /\ connected' = [connected EXCEPT ![t] = FALSE]
       ELSE /\ identified' = [identified EXCEPT ![c] = TRUE]
            /\ connected' = [connected EXCEPT ![t] = TRUE]
            /\ UNCHANGED <<sock, sockOpen, written>>
    /\ pc' = [pc EXCEPT ![t] = "connect_return"]
    /\ UNCHANGED helloSeen
    /\ UNCHANGED <<agent, token, self, idle, peeked, op, caller, args, request, retry_count,
                   hello_ok, pending, outcome, histVars>>

\* connect() returns to the caller that called it directly.
ConnectReturn(t) ==
    /\ pc[t] = "connect_return"
    /\ UNCHANGED otherVars
    /\ caller[t] = "top"
    /\ Finish(t, Returned(connected[t]))
    /\ helloSeen' = [helloSeen EXCEPT ![t] = <<>>]
    /\ UNCHANGED <<connVars, sockVars, localVars, histVars>>

\* ---------------------------------------------------------- send_command
\* `if not self.connect()` of line 222.
NotConnected_Never(ok) == FALSE
NotConnected(ok) == ~ok

\* `while retry_count <= MAX_RETRIES` of line 260.
WhileCondition(rc) == rc <= MAX_RETRIES

\* `if retry_count <= MAX_RETRIES` of line 294, after the increment of line 292.
RetryAllowed_OffByOne(rc) == rc < MAX_RETRIES
RetryAllowed_Always(rc) == TRUE
RetryAllowed(rc) == rc <= MAX_RETRIES

\* `if not self.connect()` of line 297.
ReconnectFailed_Never(ok) == FALSE
ReconnectFailed(ok) == ~ok

\* Whether the first except clause (lines 281-288) catches the exception.
IsTransport_Any(e) == TRUE
IsTransport(e) == e.type \in TransportErrors

\* `return response.get("result", {})` of line 279.
ReturnValue_Whole(response) == response
ReturnValue_Empty(response) == EmptyDict
ReturnValue(response) == Get(response, "result", EmptyDict)

\* The bare `raise` of line 318: the exception caught goes on as it is.
Reraised_AsConnectionError(e) == Exc("SketchUpConnectionError", "Connection to SketchUp lost")
Reraised(e) == e

\* The exception lines 272-277 raise for a response with an "error" member.
ErrorRaised(response) ==
    Exc("Exception", Get(response.error, "message", "Unknown error from SketchUp"))

\* A caller calls send_command(method, params); line 222 calls connect().
CallSendCommand(t) ==
    /\ StartCall(t, "send_command")
    /\ UNCHANGED otherVars
    /\ \E a \in CallArgs : args' = [args EXCEPT ![t] = a]
    /\ pc' = [pc EXCEPT ![t] = "connect_disconnect"]
    /\ caller' = [caller EXCEPT ![t] = "sc_initial"]
    /\ callConnects' = [callConnects EXCEPT ![t] = 1]
    /\ outcome' = [outcome EXCEPT ![t] = NoOutcome]
    /\ LET c == self[t] IN
       \E late \in (IF sock[c] # None /\ identified[c] THEN BOOLEAN ELSE {FALSE}) :
           idle' = [idle EXCEPT ![c] = late]
    /\ peeked' = [peeked EXCEPT ![t] = ""]
    /\ written' = [s \in SockIds |-> <<>>]
    /\ UNCHANGED helloSeen
    /\ UNCHANGED <<connVars, sockOpen, self, clean>>

\* send_command, lines 222-258: the result of the first connect(), the
\* assertion and the construction of the request.
ScAfterConnect(t) ==
    /\ pc[t] = "connect_return"
    /\ UNCHANGED otherVars
    /\ caller[t] = "sc_initial"
    /\ IF NotConnected(connected[t])
       THEN /\ Finish(t, Raised(Exc("SketchUpConnectionError", "Not connected to SketchUp")))
            /\ UNCHANGED request
       ELSE IF sock[self[t]] = None
       THEN /\ Finish(t, Raised(Exc("AssertionError", "")))
            /\ UNCHANGED request
       ELSE /\ request' = [request EXCEPT ![t] = BuildRequest(args[t][1], args[t][2])]
            /\ pc' = [pc EXCEPT ![t] = "sc_send"]
            /\ UNCHANGED outcome
    /\ helloSeen' = [helloSeen EXCEPT ![t] = <<>>]
    /\ UNCHANGED <<connVars, sockVars, self, idle, peeked, op, caller, args, retry_count, hello_ok,
                   connected, pending, histVars>>

\* send_command, lines 260-265 and 321: the loop condition, and one pass of
\* the loop writes the request.
ScSend(t) ==
    /\ pc[t] = "sc_send"
    /\ UNCHANGED otherVars
    /\ LET c == self[t] IN
       IF ~WhileCondition(retry_count[t])
       THEN /\ Finish(t, Raised(Exc("SketchUpConnectionError",
                                    "Connection to SketchUp lost after all retries")))
            /\ clean' = Spoiled
            /\ UNCHANGED <<written, writes, transport, pending, last, attempts>>
       ELSE IF sock[c] = None
       THEN /\ attempts' = [attempts EXCEPT ![t] = @ + 1]
            /\ pending' = [pending EXCEPT ![t] = Exc("AttributeError", "")]
            /\ last' = [last EXCEPT ![t] = AttemptFailed("AttributeError", <<>>)]
            /\ pc' = [pc EXCEPT ![t] = "sc_except"]
            /\ clean' = Spoiled
            /\ UNCHANGED <<written, writes, transport, outcome>>
       ELSE \E how \in SendOutcomes :
              /\ attempts' = [attempts EXCEPT ![t] = @ + 1]
              /\ UNCHANGED outcome
              /\ IF how = "ok"
                 THEN /\ written' = [written EXCEPT ![sock[c]] = Append(@, request[t])]
                      /\ writes' = [writes EXCEPT ![t] = @ + 1]
                      /\ pc' = [pc EXCEPT ![t] = "sc_recv"]
                      /\ UNCHANGED <<pending, last, transport, clean>>
                 ELSE /\ pending' = [pending EXCEPT ![t] = Exc(how, "")]
                      /\ last' = [last EXCEPT ![t] = AttemptFailed(how, <<>>)]
                      /\ transport' = [transport EXCEPT
                                         ![t] = IF how \in TransportFailures THEN @ + 1 ELSE @]
                      /\ pc' = [pc EXCEPT ![t] = "sc_except"]
                      /\ clean' = Spoiled
                      /\ UNCHANGED <<written, writes>>
    /\ UNCHANGED <<connVars, sockOpen, self, idle, peeked, op, caller, args, request,
                   retry_count, hello_ok, connected, calls, callConnects,
                   helloSeen>>

\* send_command, lines 267-277, when the recv() calls give `script`: the
\* exception raised (NoExc when line 279 is reached) and the decoded response.
AttemptResult(script) ==
    LET r == receive_full_response(script)
        j == JsonLoads(r.data)
    IN  IF r.exc # NoExc
        THEN [exc |-> r.exc, got |-> FALSE, resp |-> EmptyDict, seen |-> r.seen]
        ELSE IF j.exc # ""
        THEN [exc |-> Exc(j.exc, ""), got |-> FALSE, resp |-> EmptyDict, seen |-> r.seen]
        ELSE IF j.kind # "object"
        THEN [exc |-> Exc("TypeError", ""), got |-> FALSE, resp |-> EmptyDict, seen |-> r.seen]
        ELSE IF "error" \in DOMAIN j.obj
        THEN [exc |-> ErrorRaised(j.obj), got |-> TRUE, resp |-> j.obj, seen |-> r.seen]
        ELSE [exc |-> NoExc, got |-> TRUE, resp |-> j.obj, seen |-> r.seen]

\* Every way one read of a response can end, over the peer's behaviours.
AttemptResults == {AttemptResult(script) : script \in RecvScripts}

\* send_command, lines 267-279: the read and the decoding of the response.
ScRecv(t) ==
    /\ pc[t] = "sc_recv"
    /\ UNCHANGED otherVars
    /\ \E r \in (IF sock[self[t]] # None THEN AttemptResults
                ELSE {[exc |-> Exc("AttributeError", ""), got |-> FALSE,
                       resp |-> EmptyDict, seen |-> <<>>]}) :
         /\ last' = [last EXCEPT ![t] = IF r.got THEN AttemptAnswered(r.resp, r.seen)
                                        ELSE AttemptFailed(r.exc.type, r.seen)]
         /\ transport' = [transport EXCEPT
                            ![t] = IF ~r.got /\ r.exc.type \in TransportFailures
                                   THEN @ + 1 ELSE @]
         /\ IF r.exc = NoExc
            THEN /\ Finish(t, Returned(ReturnValue(r.resp)))
                 /\ clean' = IF clean = Spoiled THEN Spoiled
                             ELSE [clean EXCEPT !.sends = @ + 1]
                 /\ UNCHANGED pending
            ELSE /\ pending' = [pending EXCEPT ![t] = r.exc]
                 /\ pc' = [pc EXCEPT ![t] = "sc_except"]
                 /\ clean' = Spoiled
                 /\ UNCHANGED outcome
    /\ UNCHANGED helloSeen
    /\ UNCHANGED <<connVars, sockVars, self, idle, peeked, op, caller, args, request, retry_count,
                   hello_ok, connected, calls, callConnects, attempts, writes>>

\* `self.sock = None` of lines 302 and 317 drops the handle of a socket
\* without closing it.  Whether the socket stays open is the interpreter's
\* affair: reference counting closes it at once when nothing else refers to
\* it, and a traceback or another collector keeps it open for some time.
DroppedStays == BOOLEAN

\* What is open after Connection c dropped its handle that way.
OpenAfterDrop(c, stays) ==
    IF stays \/ sock[c] = None THEN sockOpen ELSE sockOpen \ {sock[c]}

\* send_command, lines 281-318: the three except clauses.
ScExcept(t) ==
    /\ pc[t] = "sc_except"
    /\ UNCHANGED otherVars
    /\ LET c == self[t]
           e == pending[t]
       IN  IF IsTransport(e)
           THEN /\ retry_count' = [retry_count EXCEPT ![t] = @ + 1]
                /\ IF RetryAllowed(retry_count[t] + 1)
                   THEN /\ pc' = [pc EXCEPT ![t] = "sc_retry"]
                        /\ UNCHANGED <<sock, sockOpen, outcome>>
                   ELSE /\ sock' = [sock EXCEPT ![c] = None]
                        /\ \E stays \in DroppedStays : sockOpen' = OpenAfterDrop(c, stays)
                        /\ Finish(t, Raised(Exc("SketchUpConnectionError",
                                                "Connection to SketchUp lost after attempts")))
           ELSE IF e.type = "JSONDecodeError"
           THEN /\ Finish(t, Raised(Exc("SketchUpProtocolError",
                                        "Invalid response from SketchUp")))
                /\ UNCHANGED <<sock, sockOpen, retry_count>>
           ELSE /\ sock' = [sock EXCEPT ![c] = None]
                /\ \E stays \in DroppedStays : sockOpen' = OpenAfterDrop(c, stays)
                /\ Finish(t, Raised(Reraised(e)))
                /\ UNCHANGED retry_count
    /\ pending' = [pending EXCEPT ![t] = NoExc]
    /\ UNCHANGED helloSeen
    /\ UNCHANGED <<identified, agent, token, written, self, idle, peeked, op, caller, args,
                   request, hello_ok, connected, histVars>>

\* send_command, lines 296-297: disconnect() and the call of connect().
ScRetry(t) ==
    /\ pc[t] = "sc_retry"
    /\ UNCHANGED otherVars
    /\ disconnect(self[t])
    /\ pc' = [pc EXCEPT ![t] = "connect_disconnect"]
    /\ caller' = [caller EXCEPT ![t] = "sc_retry"]
    /\ callConnects' = [callConnects EXCEPT ![t] = @ + 1]
    /\ UNCHANGED helloSeen
    /\ UNCHANGED <<agent, token, self, idle, peeked, op, args, request, retry_count, hello_ok,
                   connected, pending, outcome, calls, attempts, writes, last,
                   transport, clean>>

\* send_command, lines 297-299 and 321: the result of the reconnect.
ScAfterReconnect(t) ==
    /\ pc[t] = "connect_return"
    /\ UNCHANGED otherVars
    /\ caller[t] = "sc_retry"
    /\ IF ReconnectFailed(connected[t])
       THEN Finish(t, Raised(Exc("SketchUpConnectionError",
                                 "Connection to SketchUp lost after all retries")))
       ELSE /\ pc' = [pc EXCEPT ![t] = "sc_send"]
            /\ UNCHANGED outcome
    /\ helloSeen' = [helloSeen EXCEPT ![t] = <<>>]
    /\ UNCHANGED <<connVars, sockVars, localVars, histVars>>

\* ------------------------------------------------------- the specification
Next ==
    \E t \in Threads :
        \/ CallSendCommand(t)
        \/ CallConnect(t)
        \/ CallDisconnect(t)
        \/ CallHealthCheck(t)
        \/ ConnectDisconnect(t)
        \/ ConnectOpen(t)
        \/ HelloSend(t)
        \/ HelloRecv(t)
        \/ ConnectFinish(t)
        \/ ConnectReturn(t)
        \/ ScAfterConnect(t)
        \/ ScSend(t)
        \/ ScRecv(t)
        \/ ScExcept(t)
        \/ ScRetry(t)
        \/ ScAfterReconnect(t)

Spec == Init /\ [][Next]_vars

\* The peer of the two-thread runs never fails and answers every request on
\* a socket the Connection holds with the same complete line; the one command
\* the threads send is get_layers.
RaceArgs == <<"get_layers", NoParams>>
RaceLine == <<"{", "res1", "}", "NL">>

\* The step of thread t meets no failure of the peer or of the network: what
\* fails in it fails for want of a socket.
PeerNeverFails(t) ==
    LET c == self[t] IN
    /\ pc[t] = "connect_open" => sock'[c] # None
    /\ (pc[t] = "hello_send" /\ sock[c] # None) => pc'[t] = "hello_recv"
    /\ pc[t] = "hello_recv" =>
          IF sock[c] # None THEN hello_ok'[t] /\ helloSeen'[t] = RaceLine
          ELSE helloSeen'[t] = <<>>
    /\ (pc[t] = "sc_send" /\ sock[c] # None) => pc'[t] \in {"sc_recv", "idle"}
    /\ (pc[t] = "sc_recv" /\ sock[c] # None) =>
          last'[t] = AttemptAnswered(BodyOf("res1"), RaceLine)

\* Two threads share the Connection and call send_command on it with nothing
\* between them: the class takes no lock.
RaceNext ==
    \E t \in Callers :
        \/ CallSendCommand(t) /\ args'[t] = RaceArgs /\ idle' = idle
        \/ ConnectDisconnect(t)
        \/ ConnectOpen(t) /\ PeerNeverFails(t)
        \/ HelloSend(t) /\ PeerNeverFails(t)
        \/ HelloRecv(t) /\ PeerNeverFails(t)
        \/ ConnectFinish(t)
        \/ ScAfterConnect(t)
        \/ ScSend(t) /\ PeerNeverFails(t)
        \/ ScRecv(t) /\ PeerNeverFails(t)
        \/ ScExcept(t)

RaceSpec == Init /\ [][RaceNext]_vars

\* ------------------------------------------------------------ properties
\* Thread t's send_command call has ended.
SendDone(t) == pc[t] = "idle" /\ op[t] = "send_command" /\ outcome[t].status # "none"

\* Thread t's operation ended by raising an exception of the class `type`.
RaisedType(t, type) == outcome[t].status = "raise" /\ outcome[t].exc.type = type

\* The latest attempt of thread t's call was answered with an "error" response.
ErrorAnswered(t) == last[t].got /\ "error" \in DOMAIN last[t].resp

\* C1: on one Connection, two or more consecutive successful send_command
\* calls against a peer that never fails make exactly one TCP connect and
\* exactly one hello handshake in total.
C1_ConnectionReused ==
    clean.sends >= 2 => (tcpConnects = 1 /\ clean.hellos = 1)

\* C2: a send_command call makes at most MAX_RETRIES + 1 request attempts, and
\* when every attempt ended in a transport failure while every connect() of
\* the call succeeded, it raises SketchUpConnectionError after exactly
\* MAX_RETRIES + 1 attempts.
C2_RetriesExhausted ==
    \A t \in Threads :
        /\ op[t] = "send_command" => attempts[t] <= MAX_RETRIES + 1
        /\ (SendDone(t) /\ attempts[t] >= 1 /\ transport[t] = attempts[t] /\ connected[t])
              => /\ RaisedType(t, "SketchUpConnectionError")
                 /\ attempts[t] = MAX_RETRIES + 1
                 /\ callConnects[t] = MAX_RETRIES + 1

C2_Witness ==
    \E t \in Threads :
        /\ SendDone(t)
        /\ attempts[t] = MAX_RETRIES + 1
        /\ transport[t] = MAX_RETRIES + 1
        /\ connected[t]
        /\ last[t].exc = "SketchUpConnectionError"
        /\ RaisedType(t, "SketchUpConnectionError")

\* C3: when the first attempt of a send_command call ended in a transport
\* failure and the second attempt was answered without an "error", the call
\* returns the "result" of the second response ({} when it has none) and
\* connect() ran exactly twice during the call.
C3_SecondAttemptResult ==
    \A t \in Threads :
        (SendDone(t) /\ attempts[t] = 2 /\ transport[t] = 1
            /\ last[t].got /\ "error" \notin DOMAIN last[t].resp)
          => /\ outcome[t].status = "return"
             /\ outcome[t].value = (IF "result" \in DOMAIN last[t].resp
                                    THEN last[t].resp.result ELSE EmptyDict)
             /\ callConnects[t] = 2

C3_Witness ==
    \E t \in Threads :
        /\ SendDone(t)
        /\ calls = 1
        /\ attempts[t] = 2
        /\ transport[t] = 1
        /\ last[t].got
        /\ outcome[t] = Returned([text |-> "two"])
        /\ callConnects[t] = 2

\* C4: when the response to a command carries an "error" object, send_command
\* raises SketchUpRemoteError whose code, message and data are those of the
\* error object (data empty when absent), and no other exception class.
C4_RemoteErrorRaised ==
    \A t \in Threads :
        (SendDone(t) /\ ErrorAnswered(t))
          => /\ RaisedType(t, "SketchUpRemoteError")
             /\ outcome[t].exc.attrs =
                  [code |-> last[t].resp.error.code,
                   message |-> Get(last[t].resp.error, "message", ""),
                   data |-> Get(last[t].resp.error, "data", EmptyDict)]

\* The step of thread t ends its call by raising, without another pass of the
\* retry loop: no retry counted, no connect(), no socket, no request written.
RaisesAtOnce(t) ==
    /\ pc'[t] = "idle"
    /\ outcome'[t].status = "raise"
    /\ retry_count'[t] = retry_count[t]
    /\ attempts'[t] = attempts[t]
    /\ writes'[t] = writes[t]
    /\ callConnects'[t] = callConnects[t]
    /\ sockOpen' \subseteq sockOpen
    /\ written' = written

\* The command request is the one message written after the hello on the
\* socket thread t's Connection holds.
OneRequestOnSocket(t) ==
    LET c == self[t] IN
    /\ sock[c] # None
    /\ Len(written[sock[c]]) = 2
    /\ written[sock[c]][1].method = "hello"
    /\ written[sock[c]][2] = request[t]

HasNewline(bytes) == \E i \in 1..Len(bytes) : bytes[i] = "NL"
FirstLine(bytes) ==
    LET n == CHOOSE i \in 1..Len(bytes) :
                 bytes[i] = "NL" /\ \A j \in 1..(i - 1) : bytes[j] # "NL"
    IN  SubSeq(bytes, 1, n - 1)

\* The peer answered with a complete line that is no valid JSON.
MalformedAnswer(bytes) == HasNewline(bytes) /\ JsonLoads(FirstLine(bytes)).exc # ""

\* The peer's answer stopped before the end of the line.
TruncatedAnswer(bytes) == bytes # <<>> /\ ~HasNewline(bytes)

\* C6: when the peer answers a command with bytes that are no valid JSON,
\* send_command raises SketchUpProtocolError and makes no further connect or
\* send in that call.
C6_MalformedRaisesProtocolError ==
    [][\A t \in Threads :
          (pc[t] = "sc_except" /\ MalformedAnswer(last[t].seen))
            => (RaisesAtOnce(t) /\ outcome'[t].exc.type = "SketchUpProtocolError")]_vars

\* C7: a SketchUpProtocolError caused by a truncated response is handled like
\* a transport failure: while retries remain it consumes one retry and the
\* call goes on to reconnect instead of raising.
C7_TruncationRetried ==
    [][\A t \in Threads :
          (pc[t] = "sc_except" /\ pending[t].type = "SketchUpProtocolError"
              /\ TruncatedAnswer(last[t].seen) /\ retry_count[t] < MAX_RETRIES)
            => /\ retry_count'[t] = retry_count[t] + 1
               /\ pc'[t] = "sc_retry"
               /\ outcome'[t].status = "none"]_vars

\* C8: when a reconnect between retries fails, send_command stops at once:
\* it raises SketchUpConnectionError with no further connect() and no further
\* send, even if retries remain.
C8_ReconnectFailureStops ==
    [][\A t \in Threads :
          (pc[t] = "connect_return" /\ caller[t] = "sc_retry" /\ ~connected[t])
            => /\ RaisesAtOnce(t)
               /\ outcome'[t].exc.type = "SketchUpConnectionError"
               /\ attempts[t] = callConnects[t] - 1
               /\ sock'[self[t]] = None]_vars

C8_Witness ==
    \E t \in Threads :
        /\ SendDone(t)
        /\ caller[t] = "sc_retry"
        /\ ~connected[t]
        /\ retry_count[t] = 1
        /\ attempts[t] = 1
        /\ callConnects[t] = 2
        /\ RaisedType(t, "SketchUpConnectionError")

\* C9: when the connect() send_command starts with fails, the call raises
\* SketchUpConnectionError("Not connected to SketchUp") after exactly one
\* connect() attempt, with no request written and the retry loop not entered.
C9_NotConnectedRaised ==
    [][\A t \in Threads :
          (pc[t] = "connect_return" /\ caller[t] = "sc_initial" /\ ~connected[t])
            => /\ RaisesAtOnce(t)
               /\ outcome'[t].exc = Exc("SketchUpConnectionError", "Not connected to SketchUp")
               /\ callConnects[t] = 1
               /\ writes[t] = 0
               /\ attempts[t] = 0
               /\ retry_count[t] = 0]_vars

C9_Witness ==
    \E t \in Threads :
        /\ SendDone(t)
        /\ caller[t] = "sc_initial"
        /\ ~connected[t]
        /\ callConnects[t] = 1
        /\ writes[t] = 0
        /\ attempts[t] = 0
        /\ outcome[t] = Raised(Exc("SketchUpConnectionError", "Not connected to SketchUp"))

\* The peer answered the hello of the connect() thread t is in with a
\* response object that has a "result" and no "error".
HelloSucceeded(t) ==
    LET j == JsonLoads(helloSeen[t]) IN
    /\ helloSeen[t] # <<>>
    /\ j.exc = ""
    /\ j.kind = "object"
    /\ "result" \in DOMAIN j.obj
    /\ "error" \notin DOMAIN j.obj

\* C10: when the peer accepts the connection and answers the hello with a
\* success result, connect() returns True, _identified is True, the socket
\* handle is present, exactly one message, the hello request, was written,
\* and its params.agent is the Connection's agent.
C10_ConnectSucceeds ==
    \A t \in Threads :
        (pc[t] = "connect_return" /\ HelloSucceeded(t))
          => LET c == self[t] IN
             /\ connected[t]
             /\ identified[c]
             /\ sock[c] # None
             /\ sock[c] \in sockOpen
             /\ Len(written[sock[c]]) = 1
             /\ written[sock[c]][1].method = "hello"
             /\ written[sock[c]][1].params.agent = agent[c]

C10_Witness ==
    \E t \in Threads :
        /\ pc[t] = "connect_return"
        /\ op[t] = "connect"
        /\ HelloSucceeded(t)
        /\ connected[t]
        /\ agent[self[t]] = "test-agent"
        /\ sock[self[t]] # None
        /\ written[sock[self[t]]][1].params.agent = "test-agent"

\* The peer answered the hello of the connect() thread t is in with a
\* response object that carries an "error".
HelloRefused(t) ==
    LET j == JsonLoads(helloSeen[t]) IN
    /\ helloSeen[t] # <<>>
    /\ j.exc = ""
    /\ j.kind = "object"
    /\ "error" \in DOMAIN j.obj

\* C11: whenever connect() returns False the Connection is fully
\* disconnected (socket handle absent, _identified False); a hello response
\* that carries an "error" makes connect() return False; connect() never
\* raises.
C11_FailedConnectDisconnected ==
    \A t \in Threads :
        /\ (pc[t] = "connect_return" /\ ~connected[t])
              => (sock[self[t]] = None /\ ~identified[self[t]])
        /\ (pc[t] = "connect_return" /\ HelloRefused(t)) => ~connected[t]
        /\ (pc[t] = "idle" /\ op[t] = "connect")
              => /\ outcome[t].status = "return"
                 /\ outcome[t].value = connected[t]
                 /\ (~connected[t] => (sock[self[t]] = None /\ ~identified[self[t]]))

C11_Witness ==
    \E t \in Threads :
        /\ pc[t] = "connect_return"
        /\ op[t] = "connect"
        /\ HelloRefused(t)
        /\ ~connected[t]
        /\ sock[self[t]] = None
        /\ ~identified[self[t]]

\* The hello requests written on the socket Connection c holds.
HellosWritten(c) ==
    IF sock[c] = None THEN {}
    ELSE {written[sock[c]][i] : i \in {j \in 1..Len(written[sock[c]]) :
                                         written[sock[c]][j].method = "hello"}}

\* C12: the hello request carries params.token equal to the configured auth
\* token when one is configured, and has no "token" key otherwise.
C12_HelloCarriesToken ==
    \A c \in ConnIds : \A h \in HellosWritten(c) :
        IF token[c] # NoToken
        THEN "token" \in DOMAIN h.params /\ h.params.token = token[c]
        ELSE "token" \notin DOMAIN h.params

\* C13: disconnect() never raises and, from every state of the Connection,
\* leaves the socket handle absent and _identified False.
C13_DisconnectClears ==
    \A t \in Threads :
        (pc[t] = "idle" /\ op[t] = "disconnect")
          => /\ outcome[t].status = "return"
             /\ sock[self[t]] = None
             /\ ~identified[self[t]]

\* The step is a call of disconnect() by thread t.
DisconnectStep(t) == pc[t] = "idle" /\ calls' = calls + 1 /\ op'[t] = "disconnect"

\* C14: disconnect() on a Connection that has no socket does not raise,
\* closes nothing and leaves every field of the Connection unchanged; every
\* disconnect() leaves the Connection without a socket, so that a second
\* disconnect() changes nothing.
C14_DisconnectIdempotent ==
    [][\A t \in Threads :
          DisconnectStep(t)
            => /\ outcome'[t].status = "return"
               /\ sock'[self[t]] = None
               /\ sock[self[t]] = None
                    => /\ connVars' = connVars
                       /\ sockOpen' = sockOpen
                       /\ written' = written]_vars

C14_Witness ==
    \E t \in Threads :
        /\ pc[t] = "idle"
        /\ op[t] = "disconnect"
        /\ calls = 2
        /\ outcome[t].status = "return"
        /\ sock[self[t]] = None
        /\ identified[self[t]]

\* C15: between operations a Connection is either Disconnected (no socket,
\* _identified False) or Identified (socket held, _identified True).
C15_TwoStates ==
    \A t \in Threads :
        pc[t] = "idle"
          => \/ (sock[self[t]] = None /\ ~identified[self[t]])
             \/ (sock[self[t]] # None /\ identified[self[t]])

\* Thread t's send_command has just written its request: the method and the
\* params it was called with, and the message that went out last.
JustWritten(t) == op[t] = "send_command" /\ pc[t] = "sc_recv"
CalledMethod(t) == args[t][1]
CalledParams(t) == IF args[t][2].some THEN args[t][2].val ELSE EmptyDict
WrittenRequest(t) == written[sock[self[t]]][Len(written[sock[self[t]]])]

\* A tools/call whose params already hold both "name" and "arguments".
AlreadyWrapped(t) ==
    /\ CalledMethod(t) = "tools/call"
    /\ {"name", "arguments"} \subseteq DOMAIN CalledParams(t)

\* C16: for every method that is not a special direct method, send_command
\* writes a request with method "tools/call" and params exactly
\* {name: method, arguments: params}, absent params becoming {}.
C16_GenericEnvelope ==
    \A t \in Threads :
        (JustWritten(t) /\ CalledMethod(t) \notin {"hello", "resources/list"}
            /\ ~AlreadyWrapped(t))
          => /\ WrittenRequest(t).jsonrpc = "2.0"
             /\ WrittenRequest(t).method = "tools/call"
             /\ WrittenRequest(t).params =
                  [name |-> CalledMethod(t), arguments |-> CalledParams(t)]
             /\ WrittenRequest(t) = request[t]

C16_Witness ==
    \E t \in Threads :
        /\ JustWritten(t)
        /\ args[t] = <<"get_layers", Some(EmptyDict)>>
        /\ WrittenRequest(t).method = "tools/call"
        /\ WrittenRequest(t).params = [name |-> "get_layers", arguments |-> EmptyDict]

\* C17 as stated: "hello" and "resources/list" are written as direct requests
\* with that method and the caller's params, and an already wrapped
\* tools/call is written unchanged.
C17_ThreeDirectKinds ==
    \A t \in Threads :
        (JustWritten(t)
            /\ (CalledMethod(t) \in {"hello", "resources/list"} \/ AlreadyWrapped(t)))
          => /\ WrittenRequest(t).method = CalledMethod(t)
             /\ WrittenRequest(t).params = CalledParams(t)

\* C17 amended: "resources/list" is written as a direct request with that
\* method and the caller's params ({} when absent), an already wrapped
\* tools/call is written unchanged, and "hello" passed to send_command is
\* wrapped into the tools/call envelope like any other method.
C17_TwoDirectKinds ==
    \A t \in Threads :
        /\ (JustWritten(t) /\ (CalledMethod(t) = "resources/list" \/ AlreadyWrapped(t)))
              => /\ WrittenRequest(t).method = CalledMethod(t)
                 /\ WrittenRequest(t).params = CalledParams(t)
        /\ (JustWritten(t) /\ CalledMethod(t) = "hello")
              => /\ WrittenRequest(t).method = "tools/call"
                 /\ WrittenRequest(t).params =
                      [name |-> "hello", arguments |-> CalledParams(t)]

C17_Witness ==
    \E t \in Threads :
        /\ JustWritten(t)
        /\ args[t] = <<"resources/list", Some([cursor |-> "c1"])>>
        /\ WrittenRequest(t).method = "resources/list"
        /\ WrittenRequest(t).params = [cursor |-> "c1"]

\* C18: when the response to a command carries no "error", send_command
\* returns exactly the response's "result" member, or {} when the response
\* has no "result" member.
C18_ResultReturned ==
    \A t \in Threads :
        (SendDone(t) /\ last[t].got /\ "error" \notin DOMAIN last[t].resp)
          => /\ outcome[t].status = "return"
             /\ "result" \in DOMAIN last[t].resp => outcome[t].value = last[t].resp.result
             /\ "result" \notin DOMAIN last[t].resp => outcome[t].value = EmptyDict

C18_Witness ==
    \E t \in Threads :
        /\ SendDone(t)
        /\ attempts[t] = 1
        /\ last[t].got
        /\ last[t].resp = [jsonrpc |-> "2.0", result |-> [text |-> "one"]]
        /\ outcome[t] = Returned([text |-> "one"])

\* C19: when a Connection that is identified has been idle longer than the
\* maximum idle time, the next send_command runs a fresh connect() with a
\* new hello handshake before it writes the command, the caller never having
\* closed the previous socket.
C19_IdleReconnect ==
    \A t \in Threads :
        (JustWritten(t) /\ idle[self[t]])
          => /\ callConnects[t] >= 1
             /\ identified[self[t]]
             /\ OneRequestOnSocket(t)
             /\ clean # Spoiled
                  => (clean.hellos = clean.sends + 1 /\ clean.connects = clean.hellos)

C19_Witness ==
    \E t \in Threads :
        /\ JustWritten(t)
        /\ idle[self[t]]
        /\ calls = 2
        /\ attempts[t] = 1
        /\ clean = [sends |-> 1, hellos |-> 2, connects |-> 2]
        /\ OneRequestOnSocket(t)

\* The step is a call of _is_connection_healthy() by thread t.
HealthStep(t) == pc[t] = "idle" /\ calls' = calls + 1 /\ op'[t] = "_is_connection_healthy"

Fields == {"host", "port", "timeout", "agent", "sock", "_identified"}

\* Thread t's send_command call returned a result.
SendReturned(t) == SendDone(t) /\ outcome[t].status = "return"

\* C21: the Connection records its last activity: the attribute exists (0 for
\* a new Connection), and once a send_command call has returned it holds the
\* time of that success.
C21_LastActivityRecorded ==
    \A t \in Threads : SendReturned(t) => "_last_activity" \in Fields

\* The four typed errors of exceptions.py.
TypedErrors ==
    {"SketchUpConnectionError", "SketchUpTimeoutError", "SketchUpProtocolError",
     "SketchUpRemoteError"}

\* C26: every send_command call that fails raises one of the four typed
\* errors, whatever the peer did.
C26_TypedErrors ==
    \A t \in Threads :
        (SendDone(t) /\ outcome[t].status = "raise") => outcome[t].exc.type \in TypedErrors

\* ------------------------------------------ the receive, recv() by recv()
\* The recv() calls one receive_full_response makes in the model.
MaxRecvs == 3

\* What a recv() call can give: bytes, the peer's close, or an exception.
RecvEvents ==
    {Chunk(<<"{", "res1", "}", "NL">>),
     Chunk(<<"{", "res1", "}">>),
     Chunk(<<"{", "res1">>),
     Chunk(<<"}", "NL">>),
     Chunk(<<"NL">>),
     Chunk(<<"x", "NL">>),
     Chunk(<<"big">>),
     Chunk(<<"0xFF">>),
     Eof,
     RecvRaises("TimeoutError"),
     RecvRaises("ConnectionResetError"),
     RecvRaises("OSError")}

\* The events that end a receive whatever has arrived: after MaxRecvs - 1
\* calls the peer sends nothing more.
FinalEvents == {e \in RecvEvents : e.ev # "chunk" \/ e.data = <<>>}

\* receive_full_response, lines 156-191: one pass of the loop, from the
\* recv() call of line 158 to the return, the continue, the break or the raise.
RecvCall ==
    /\ rpc = "recv"
    /\ nrecv < MaxRecvs
    /\ \E e \in (IF nrecv < MaxRecvs - 1 THEN RecvEvents ELSE FinalEvents) :
         /\ chunk' = e
         /\ CASE e.ev = "chunk" /\ e.data = <<>> ->
                   IF chunks = <<>>
                   THEN /\ rpc' = "done"
                        /\ rres' = [exc |-> Exc("SketchUpConnectionError",
                                               "Connection closed before receiving any data"),
                                    data |-> <<>>, seen |-> chunks]
                        /\ UNCHANGED chunks
                   ELSE /\ rpc' = "after_loop"
                        /\ UNCHANGED <<chunks, rres>>
              [] e.ev = "chunk" /\ e.data # <<>> ->
                   LET data == chunks \o e.data IN
                   /\ chunks' = data
                   /\ CASE JsonLoads(data).exc = "" ->
                             /\ rpc' = "done"
                             /\ rres' = [exc |-> NoExc, data |-> data, seen |-> data]
                        [] JsonLoads(data).exc = "JSONDecodeError" ->
                             /\ rpc' = "recv"
                             /\ UNCHANGED rres
                        [] OTHER ->
                             /\ rpc' = "done"
                             /\ rres' = [exc |-> Exc(JsonLoads(data).exc, ""),
                                         data |-> <<>>, seen |-> data]
              [] e.ev = "TimeoutError" ->
                   /\ rpc' = "after_loop"
                   /\ UNCHANGED <<chunks, rres>>
              [] e.ev \in {"ConnectionError", "BrokenPipeError", "ConnectionResetError"} ->
                   /\ rpc' = "done"
                   /\ rres' = [exc |-> Exc("SketchUpConnectionError", e.ev),
                               data |-> <<>>, seen |-> chunks]
                   /\ UNCHANGED chunks
              [] OTHER ->
                   /\ rpc' = "done"
                   /\ rres' = [exc |-> Exc(e.ev, ""), data |-> <<>>, seen |-> chunks]
                   /\ UNCHANGED chunks
    /\ nrecv' = nrecv + 1
    /\ UNCHANGED <<callVars, regVars, liveVars>>

\* receive_full_response, lines 193-202: after the loop was left by a break.
RecvAfterLoop ==
    /\ rpc = "after_loop"
    /\ rres' = AfterReceiveLoop(chunks)
    /\ rpc' = "done"
    /\ UNCHANGED <<chunks, nrecv, chunk>>
    /\ UNCHANGED <<callVars, regVars, liveVars>>

RecvNext == RecvCall \/ RecvAfterLoop

RecvSpec == Init /\ [][RecvNext]_vars

\* The receive has ended: it returned or raised.
RecvDone == rpc = "done"
RecvReturned == RecvDone /\ rres.exc = NoExc
RecvRaised(type) == RecvDone /\ rres.exc.type = type

\* More bytes than the maximum response size have arrived and no newline yet.
Oversized(bytes) ==
    \E i \in 1..Len(bytes) : bytes[i] = "big" /\ \A j \in 1..i : bytes[j] # "NL"

\* C22: once the bytes accumulated exceed the maximum response size with no
\* newline seen, the read has failed with SketchUpProtocolError: it is never
\* about to call recv() again.
C22_OversizeRefused ==
    Oversized(chunks) => RecvRaised("SketchUpProtocolError")

\* C23: a message is complete exactly when a newline has arrived: the read
\* never returns data without a newline, it is never about to call recv()
\* again once a newline has arrived, and it returns the whole buffer.
C23_NewlineFraming ==
    /\ RecvReturned => (HasNewline(rres.data) /\ rres.data = chunks)
    /\ rpc = "recv" => ~HasNewline(chunks)

\* C24: a read that times out before any byte has arrived raises
\* SketchUpTimeoutError.
C24_TimeoutBeforeData ==
    (RecvDone /\ chunk = RecvRaises("TimeoutError") /\ chunks = <<>>)
        => RecvRaised("SketchUpTimeoutError")

\* C25: a read the peer's close ends before any byte arrived raises
\* SketchUpConnectionError; a read the peer's close or a timeout ends after
\* bytes arrived raises SketchUpProtocolError; no data is returned then.
C25_IncompleteByBytes ==
    /\ (RecvDone /\ chunk = Eof /\ chunks = <<>>)
          => RecvRaised("SketchUpConnectionError")
    /\ (RecvDone /\ chunk \in {Eof, RecvRaises("TimeoutError")} /\ chunks # <<>>)
          => (RecvRaised("SketchUpProtocolError") /\ rres.data = <<>>)
    /\ (RecvDone /\ chunk \in {Eof, RecvRaises("TimeoutError")}) => ~RecvReturned

C25_Witness ==
    /\ RecvDone
    /\ chunk = RecvRaises("TimeoutError")
    /\ chunks = <<"{", "res1">>
    /\ nrecv = 2
    /\ RecvRaised("SketchUpProtocolError")

\* C29 (the exclusive use of the socket): while a thread's attempt is between
\* sending its request and receiving the response, no step of another thread
\* on the same Connection replaces the socket handle, closes the socket or
\* writes to it.
C29_SocketExclusive ==
    [][\A t, u \in Callers :
          (t # u /\ self[t] = self[u] /\ pc[u] = "sc_recv" /\ pc'[t] # pc[t])
            => LET c == self[u] IN
               /\ sock'[c] = sock[c]
               /\ sock[c] # None =>
                    /\ sock[c] \in sockOpen'
                    /\ Len(written'[sock[c]]) <= Len(written[sock[c]])]_vars

\* C30: when connect() reported success and the socket handle is absent where
\* send_command is about to send, send_command raises
\* SketchUpConnectionError("Socket not initialized").
C30_SocketNotInitialized ==
    [][\A t \in Callers :
          (pc[t] = "connect_return" /\ caller[t] = "sc_initial" /\ connected[t]
              /\ sock[self[t]] = None /\ pc'[t] # pc[t])
            => outcome'[t] = Raised(Exc("SketchUpConnectionError", "Socket not initialized"))]_vars

\* ------------------------------------------------------------ the registry
\* `with _connection_lock` (line 347): whether a thread can take the lock.
CanAcquire_Always(holder) == TRUE
CanAcquire(holder) == holder = NoThread

\* SketchupConnection(host=host, port=port, agent=agent) of line 367: the
\* fields sock and _identified take their defaults.
NewConnection_Connected(a) == [agent |-> a, sock |-> TRUE, identified |-> TRUE]
NewConnection(a) == [agent |-> a, sock |-> FALSE, identified |-> FALSE]

\* disconnect() (lines 124-133) on the state of an instance.
Disconnected(i) ==
    IF i.sock THEN [i EXCEPT !.sock = FALSE, !.identified = FALSE] ELSE i

\* How send_command (lines 204-321) can leave an instance: with an identified
\* socket, without a socket and the flag still set (lines 302 and 317), or
\* without a socket and the flag cleared (a connect() that failed).
UseOutcomes ==
    {[sock |-> TRUE, identified |-> TRUE],
     [sock |-> FALSE, identified |-> TRUE],
     [sock |-> FALSE, identified |-> FALSE]}

\* The instances constructed so far, and the next one.
Made == {i \in InstIds : inst[i] # NotMade}
NextInstance == CHOOSE i \in InstIds : i \notin Made /\ \A j \in 1..(i - 1) : j \in Made

\* The holder of the lock once thread t left the `with` block of line 347.
Released_Never(t) == t
Released(t) == NoThread

\* The `with` block is left: the lock is released and the lookup returns i.
GetReturn(t, i) ==
    /\ gret' = [gret EXCEPT ![t] = i]
    /\ connection_lock' = Released(t)
    /\ gpc' = [gpc EXCEPT ![t] = "idle"]

\* A thread calls get_sketchup_connection(agent=a).
GetCall(t) ==
    /\ gpc[t] = "idle"
    /\ using[t] = NoInstance
    /\ lookups < MaxLookups
    /\ lookups' = lookups + 1
    /\ \E a \in Agents :
         /\ garg' = [garg EXCEPT ![t] = a]
         /\ asked' = asked \cup {a}
    /\ gpc' = [gpc EXCEPT ![t] = "lock"]
    /\ gret' = [gret EXCEPT ![t] = NoInstance]
    /\ gold' = [gold EXCEPT ![t] = NoInstance]
    /\ UNCHANGED <<connection_lock, sketchup_connection, connection_agent, inst, dropped>>
    /\ UNCHANGED <<using, callVars, recvVars, liveVars>>

\* Line 347: the lock is taken.
GetAcquire(t) ==
    /\ gpc[t] = "lock"
    /\ CanAcquire(connection_lock)
    /\ connection_lock' = t
    /\ gold' = [gold EXCEPT ![t] = sketchup_connection]
    /\ gpc' = [gpc EXCEPT ![t] = "agent_changed"]
    /\ UNCHANGED <<sketchup_connection, connection_agent, inst, garg, gret, lookups,
                   asked, dropped>>
    /\ UNCHANGED <<using, callVars, recvVars, liveVars>>

\* Lines 349-353: when the agent changed the instance registered is
\* disconnected and dropped.
GetAgentChanged(t) ==
    /\ gpc[t] = "agent_changed"
    /\ IF sketchup_connection # NoInstance /\ connection_agent # garg[t]
       THEN /\ inst' = [inst EXCEPT ![sketchup_connection] = Disconnected(@)]
            /\ dropped' = IF inst[sketchup_connection].sock
                          THEN dropped \cup {sketchup_connection} ELSE dropped
            /\ sketchup_connection' = NoInstance
       ELSE UNCHANGED <<inst, dropped, sketchup_connection>>
    /\ gpc' = [gpc EXCEPT ![t] = "health"]
    /\ UNCHANGED <<connection_lock, connection_agent, garg, gret, gold, lookups, asked>>
    /\ UNCHANGED <<using, callVars, recvVars, liveVars>>

\* Lines 355-364: an instance that holds a socket is returned at once; the
\* read of the attribute sock raises nothing.
GetHealth(t) ==
    /\ gpc[t] = "health"
    /\ IF sketchup_connection # NoInstance /\ inst[sketchup_connection].sock
       THEN GetReturn(t, sketchup_connection)
       ELSE /\ gpc' = [gpc EXCEPT ![t] = "create"]
            /\ UNCHANGED <<gret, connection_lock>>
    /\ UNCHANGED <<sketchup_connection, connection_agent, inst, garg, gold, lookups,
                   asked, dropped>>
    /\ UNCHANGED <<using, callVars, recvVars, liveVars>>

\* Line 366: the test `if _sketchup_connection is None`.
GetCreate(t) ==
    /\ gpc[t] = "create"
    /\ gpc' = [gpc EXCEPT ![t] = IF sketchup_connection = NoInstance
                                 THEN "construct" ELSE "return"]
    /\ UNCHANGED <<connection_lock, sketchup_connection, connection_agent, inst, garg,
                   gret, gold, lookups, asked, dropped>>
    /\ UNCHANGED <<using, callVars, recvVars, liveVars>>

\* Lines 367-371: an instance is constructed and registered with its agent.
GetConstruct(t) ==
    /\ gpc[t] = "construct"
    /\ inst' = [inst EXCEPT ![NextInstance] = NewConnection(garg[t])]
    /\ sketchup_connection' = NextInstance
    /\ connection_agent' = garg[t]
    /\ gpc' = [gpc EXCEPT ![t] = "return"]
    /\ UNCHANGED <<connection_lock, garg, gret, gold, lookups, asked, dropped>>
    /\ UNCHANGED <<using, callVars, recvVars, liveVars>>

\* Line 373: the instance registered is returned.
GetReturnRegistered(t) ==
    /\ gpc[t] = "return"
    /\ GetReturn(t, sketchup_connection)
    /\ UNCHANGED <<sketchup_connection, connection_agent, inst, garg, gold, lookups,
                   asked, dropped>>
    /\ UNCHANGED <<using, callVars, recvVars, liveVars>>

\* A thread calls send_command on the instance its lookup returned; no lock
\* is taken for it.  Lines 222-265: connect() either fails and the call
\* raises at once, or it gives the instance an identified socket and the
\* request is written: the command is in flight.
UseConnection(t) ==
    /\ gpc[t] = "idle"
    /\ gret[t] # NoInstance
    /\ using[t] = NoInstance
    /\ \E ok \in BOOLEAN :
         /\ inst' = [inst EXCEPT ![gret[t]] = [@ EXCEPT !.sock = ok, !.identified = ok]]
         /\ using' = [using EXCEPT ![t] = IF ok THEN gret[t] ELSE NoInstance]
    /\ UNCHANGED <<connection_lock, sketchup_connection, connection_agent, gpc, garg,
                   gret, gold, lookups, asked, dropped>>
    /\ UNCHANGED <<callVars, recvVars, liveVars>>

\* Lines 267-321: the command in flight ends, after the read of the response
\* and whatever retries it made.
UseFinish(t) ==
    /\ using[t] # NoInstance
    /\ \E o \in UseOutcomes :
         inst' = [inst EXCEPT ![using[t]] = [@ EXCEPT !.sock = o.sock,
                                                      !.identified = o.identified]]
    /\ using' = [using EXCEPT ![t] = NoInstance]
    /\ UNCHANGED <<connection_lock, sketchup_connection, connection_agent, gpc, garg,
                   gret, gold, lookups, asked, dropped>>
    /\ UNCHANGED <<callVars, recvVars, liveVars>>

RegNext ==
    \E t \in Callers :
        \/ GetCall(t)
        \/ GetAcquire(t)
        \/ GetAgentChanged(t)
        \/ GetHealth(t)
        \/ GetCreate(t)
        \/ GetConstruct(t)
        \/ GetReturnRegistered(t)
        \/ UseConnection(t)
        \/ UseFinish(t)

RegSpec == Init /\ [][RegNext]_vars

\* One step of thread t inside get_sketchup_connection.
LookupStep(t) ==
    \/ GetAcquire(t)
    \/ GetAgentChanged(t)
    \/ GetHealth(t)
    \/ GetCreate(t)
    \/ GetConstruct(t)
    \/ GetReturnRegistered(t)

\* A thread inside a lookup keeps running, and takes the lock once it stays
\* free.  Nothing is assumed of a command in flight: it may never end.
RegLiveSpec == Init /\ [][RegNext]_vars /\ \A t \in Callers : WF_vars(LookupStep(t))

\* Thread t is inside get_sketchup_connection.
InLookup(t) == gpc[t] # "idle"

C28_AgentChangeRecreates ==
    [][\A t \in Callers :
          (InLookup(t) /\ gpc'[t] # gpc[t]) =>
             /\ \A i \in InstIds : /\ inst'[i].sock => inst[i].sock
                                   /\ inst'[i].identified => inst[i].identified
             /\ (gpc[t] = "agent_changed" /\ sketchup_connection # NoInstance
                   /\ connection_agent # garg[t])
                  => /\ ~inst'[sketchup_connection].sock
                     /\ sketchup_connection' = NoInstance
             /\ (gpc'[t] = "idle" /\ gold[t] # NoInstance
                   /\ inst[gold[t]].agent # garg[t])
                  => /\ gret'[t] \notin {i \in InstIds : i <= gold[t]}
                     /\ inst'[gret'[t]] = [agent |-> garg[t], sock |-> FALSE,
                                           identified |-> FALSE]
                     /\ sketchup_connection' = gret'[t]
                     /\ connection_agent' = garg[t]]_vars

C28_Witness ==
    \E t \in Callers :
        /\ gpc[t] = "idle"
        /\ gold[t] = 1
        /\ gold[t] \in dropped
        /\ gret[t] = 2
        /\ sketchup_connection = 2
        /\ inst[1].agent # inst[2].agent
        /\ inst[2] = [agent |-> garg[t], sock |-> FALSE, identified |-> FALSE]

\* C33: in one send_command call the command request is written at most
\* MAX_RETRIES + 1 times and connect() is called at most MAX_RETRIES + 1
\* times; the retry counter never exceeds MAX_RETRIES + 1 and no step of the
\* call decreases it.
C33_RetriesCapped ==
    [][\A t \in Threads :
          /\ op'[t] = "send_command" =>
                /\ writes'[t] <= MAX_RETRIES + 1
                /\ callConnects'[t] <= MAX_RETRIES + 1
                /\ retry_count'[t] <= MAX_RETRIES + 1
          /\ pc[t] # "idle" => retry_count'[t] >= retry_count[t]]_vars

C33_Witness ==
    \E t \in Threads :
        /\ SendDone(t)
        /\ writes[t] = MAX_RETRIES + 1
        /\ callConnects[t] = MAX_RETRIES + 1
        /\ retry_count[t] = MAX_RETRIES + 1

\* C34: when an attempt failed with an exception that is neither a transport
\* failure nor a JSONDecodeError, the call ends at once: the socket handle is
\* cleared, the same exception is raised and nothing is retried.
C34_UnexpectedReraised ==
    [][\A t \in Threads :
          (pc[t] = "sc_except" /\ pending[t].type \notin TransportErrors
              /\ pending[t].type # "JSONDecodeError")
            => /\ sock'[self[t]] = None
               /\ outcome'[t] = Raised(pending[t])
               /\ RaisesAtOnce(t)]_vars

C34_Witness ==
    \E t \in Threads :
        /\ SendDone(t)
        /\ last[t].exc = "UnicodeDecodeError"
        /\ RaisedType(t, "UnicodeDecodeError")
        /\ sock[self[t]] = None
        /\ writes[t] = 1
        /\ retry_count[t] = 0

\* C38: no socket is leaked: every socket that is open is the one the
\* Connection that opened it still holds, so at most one socket per Connection
\* is open at any time.
C38_NoSocketLeaked ==
    /\ sockOpen \subseteq {sock[c] : c \in ConnIds}
    /\ Cardinality(sockOpen) <= Cardinality(ConnIds)

\* C35: connect() closes and discards the socket the Connection holds before
\* it opens a new one: its first step leaves the Connection without a socket
\* and the socket held before is closed; the socket is then opened while
\* nothing is held, and it is a socket that was not open before, so it is
\* never the socket held before the call.
C35_FreshSocketOnConnect ==
    [][\A t \in Threads :
          LET c == self[t] IN
          /\ pc[t] = "connect_disconnect"
               => /\ pc'[t] = "connect_open"
                  /\ sock'[c] = None
                  /\ sock[c] # None => sock[c] \notin sockOpen'
          /\ pc[t] = "connect_open"
               => /\ sock[c] = None
                  /\ sock'[c] # None
                       => (sock'[c] \notin sockOpen /\ sock'[c] \in sockOpen')]_vars

C35_Witness ==
    \E t \in Threads :
        /\ pc[t] = "hello_send"
        /\ clean = [sends |-> 1, hellos |-> 1, connects |-> 2]
        /\ sock[self[t]] # None
        /\ sockOpen = {sock[self[t]]}

\* The bytes of a hello response decode to an object without an "error" member.
HelloWithoutError(seen) ==
    /\ JsonLoads(seen).exc = ""
    /\ JsonLoads(seen).kind = "object"
    /\ "error" \notin DOMAIN JsonLoads(seen).obj

\* C36: with one thread, the first message written to every socket is the
\* hello request, and a command request is written to a socket only after
\* the hello response read on that socket had no error: send_command enters
\* its loop, after the initial connect and after every reconnect, only with
\* such a response, and every write of a command finds the hello request, and
\* nothing else, written on the socket held.
C36_HelloBeforeCommand ==
    [][\A t \in Threads :
          LET c == self[t] IN
          /\ \A s \in SockIds :
                written'[s] # <<>> => written'[s][1] = hello_request(agent[c])
          /\ (pc[t] = "connect_return" /\ pc'[t] = "sc_send")
               => /\ hello_ok[t]
                  /\ HelloWithoutError(helloSeen[t])
                  /\ sock[c] \in sockOpen
                  /\ written[sock[c]] = <<hello_request(agent[c])>>
          /\ (pc[t] = "sc_send" /\ pc'[t] = "sc_recv")
               => /\ hello_ok[t]
                  /\ identified[c]
                  /\ sock[c] \in sockOpen
                  /\ written[sock[c]] = <<hello_request(agent[c])>>
                  /\ written'[sock[c]] = <<hello_request(agent[c]), request[t]>>]_vars

C36_Witness ==
    \E t \in Threads :
        /\ pc[t] = "sc_recv"
        /\ retry_count[t] = 1
        /\ writes[t] = 2
        /\ sock[self[t]] \in sockOpen
        /\ written[sock[self[t]]] = <<hello_request(agent[self[t]]), request[t]>>

TrickleWrap == 2

\* One pass of the receive loop in which recv() gives bytes that do not
\* complete a JSON document (lines 158-175): the chunk is appended, json.loads
\* raises JSONDecodeError and the loop continues.  It is the same in the read
\* of the hello response (line 110) and of a command's response (line 267).
RecvMore(t) ==
    /\ pc[t] \in {"hello_recv", "sc_recv"}
    /\ sock[self[t]] \in sockOpen
    /\ trickled' = [trickled EXCEPT ![t] = (@ + 1) % TrickleWrap]
    /\ UNCHANGED <<callVars, recvVars, regVars>>

\* One step of thread t inside send_command.
SendCommandStep(t) ==
    \/ ConnectDisconnect(t)
    \/ ConnectOpen(t)
    \/ HelloSend(t)
    \/ HelloRecv(t)
    \/ ConnectFinish(t)
    \/ ScAfterConnect(t)
    \/ ScSend(t)
    \/ ScRecv(t)
    \/ ScExcept(t)
    \/ ScRetry(t)
    \/ ScAfterReconnect(t)
    \/ RecvMore(t)

LiveNext ==
    \E t \in Threads :
        \/ CallSendCommand(t)
        \/ SendCommandStep(t)

\* The thread inside send_command keeps running: no recv() blocks longer than
\* the timeout and nothing else makes it wait.  What the peer sends is not a
\* matter of fairness.
LiveSpec == Init /\ [][LiveNext]_vars /\ \A t \in Threads : WF_vars(SendCommandStep(t))

\* C32: every send_command call eventually returns or raises, whatever the
\* peer does.
C32_SendCommandEnds ==
    \A t \in Threads : (pc[t] # "idle") ~> (pc[t] = "idle")

\* Thread t has a send_command in flight.
InFlight(t) == using[t] # NoInstance

\* C31: the thread that holds the registry lock has no command in flight, and
\* every lookup completes, whatever the commands in flight on other threads
\* do, also when they never end.
C31_LookupNeverBlockedByIO ==
    /\ [](\A t \in Callers : connection_lock = t => (InLookup(t) /\ ~InFlight(t)))
    /\ \A t \in Callers : InLookup(t) ~> ~InLookup(t)

C31_Witness ==
    \E t, u \in Callers :
        /\ t # u
        /\ InFlight(u)
        /\ connection_lock = t
        /\ gpc[t] = "health"
        /\ sketchup_connection = using[u]
        /\ inst[using[u]].sock

\* C37: no step of a lookup takes the socket from an instance on which
\* another thread has a send_command in flight.
C37_InFlightNotDisconnected ==
    [][\A t, u \in Callers :
          (t # u /\ InLookup(t) /\ gpc'[t] # gpc[t] /\ InFlight(u) /\ inst[using[u]].sock)
            => inst'[using[u]].sock]_vars

====
